---- MODULE Spec2Model ----
(***************************************************************************)
(* Model of src/src/lab.c: a bounded blocking FIFO queue (monitor) built   *)
(* from a ring buffer, one pthread mutex and two condition variables, with *)
(* a cooperative shutdown flag.                                            *)
(*                                                                         *)
(* Threads: producers call enqueue, consumers call dequeue, and the main   *)
(* thread calls queue_shutdown, is_empty and is_shutdown; in the           *)
(* specifications of their own it also calls queue_init, queue_destroy,    *)
(* and the operations with a null queue.                                   *)
(* A thread's step is either a pthread_mutex_lock that succeeds (a thread  *)
(* still blocked on the mutex is no different, for the others, from one    *)
(* that has not called yet) or the whole critical section that follows it, *)
(* up to the pthread_cond_wait or the pthread_mutex_unlock + return that   *)
(* ends it.                                                                *)
(***************************************************************************)
EXTENDS Integers, Sequences, FiniteSets

\* ---- bounds of the model ----
NumProducers == 2
NumConsumers == 2
NumItems == 3
MaxCapacity == 2
MaxShutdownCalls == 2

\* ---- threads and values ----
Producers == 1 .. NumProducers
Consumers == (NumProducers + 1) .. (NumProducers + NumConsumers)
Main == NumProducers + NumConsumers + 1
Threads == Producers \cup Consumers \cup {Main}
NoThread == 0

\* NULL is the null pointer. The items handed to enqueue are non-null
\* handles, each distinct, so that a loss or a duplication is visible; the
\* producers take them one after the other from a common supply.
NULL == 0
Items == 1 .. NumItems

VARIABLES
    buffer,             \* q->buffer: slot index -> stored pointer
    capacity,           \* q->capacity
    size,               \* q->size
    front,              \* q->front
    rear,               \* q->rear
    is_shutdown_flag,   \* q->is_shutdown_flag
    lock,               \* q->lock: the thread that holds the mutex, or NoThread
    not_full,           \* q->not_full: threads blocked in pthread_cond_wait on it
    not_empty,          \* q->not_empty: threads blocked in pthread_cond_wait on it
    pc,                 \* each thread's position
    data,               \* producer -> the argument of its current enqueue call
    supplied,           \* number of items handed to enqueue calls so far
    sdCalls,            \* number of queue_shutdown calls that returned
    obsRet,             \* what the main thread's last call returned, if it was
                        \* is_empty or is_shutdown: <<name, value>>, else <<>>
    accepted,           \* history: items stored by enqueue, in critical-section order
    returned,           \* history: items returned by dequeue, in critical-section order
    atShutdown          \* history: what the first queue_shutdown found

queueVars == <<buffer, capacity, size, front, rear, is_shutdown_flag>>
syncVars == <<lock, not_full, not_empty>>
histVars == <<accepted, returned, atShutdown>>
vars == <<buffer, capacity, size, front, rear, is_shutdown_flag, lock, not_full,
          not_empty, pc, data, supplied, sdCalls, obsRet, accepted,
          returned, atShutdown>>

\* The buffered items, oldest first, read off the ring buffer.
Contents == [i \in 1 .. size |-> buffer[(front + i - 1) % capacity]]

NoShutdownYet == [seen |-> FALSE, contents |-> <<>>, returned |-> 0, early |-> FALSE]

\* ---- queue_init (lines 28-76) ----
\* Variant of lines 29-48: the assertion of line 29 left out.
queue_init_unchecked(cap) ==
    /\ capacity = cap
    /\ buffer = [i \in 0 .. cap - 1 |-> NULL]
    /\ size = 0
    /\ front = 0
    /\ rear = -1
    /\ is_shutdown_flag = FALSE
    /\ lock = NoThread
    /\ not_full = {}
    /\ not_empty = {}

\* malloc leaves the buffer's slots indeterminate; no slot is read before
\* enqueue has written it, and NULL stands for the value a slot starts with.
queue_init(cap) ==
    /\ cap > 0
    /\ capacity = cap
    /\ buffer = [i \in 0 .. cap - 1 |-> NULL]
    /\ size = 0
    /\ front = 0
    /\ rear = -1
    /\ is_shutdown_flag = FALSE
    /\ lock = NoThread
    /\ not_full = {}
    /\ not_empty = {}

Init ==
    /\ \E cap \in 1 .. MaxCapacity : queue_init(cap)
    /\ pc = [t \in Threads |-> "idle"]
    /\ data = [p \in Producers |-> NULL]
    /\ supplied = 0
    /\ sdCalls = 0
    /\ obsRet = <<>>
    /\ accepted = <<>>
    /\ returned = <<>>
    /\ atShutdown = NoShutdownYet

\* ---- pthread primitives ----
\* pthread_mutex_lock returns once the mutex is free.
mutex_lock(t, from, to) ==
    /\ pc[t] = from
    /\ lock = NoThread
    /\ lock' = t
    /\ pc' = [pc EXCEPT ![t] = to]

\* The position a thread woken from a condition wait resumes at: it has to
\* take the mutex again before pthread_cond_wait returns.
Woken(t) == IF t \in Producers THEN "enq_relock" ELSE "deq_relock"

\* Variants of the signals of lines 135 and 169: a signal sent only when the
\* queue leaves the empty or the full state, and no signal at all.
cond_signal_on_edge(waiters) ==
    IF waiters = {} \/ (size # 0 /\ size # capacity)
    THEN {{}} ELSE {{w} : w \in waiters}
cond_signal_none(waiters) == {{}}

\* pthread_cond_signal: the sets of waiters it may unblock (one of them, none
\* when nobody waits).
cond_signal(waiters) ==
    IF waiters = {} THEN {{}} ELSE {{w} : w \in waiters}

\* Variant of the broadcasts of lines 190-191: a signal, which wakes one waiter.
cond_broadcast_one(waiters) ==
    IF waiters = {} THEN {} ELSE {CHOOSE w \in waiters : TRUE}

\* pthread_cond_broadcast: the waiters it unblocks.
cond_broadcast(waiters) == waiters

\* pc after the threads in ws were woken and t moved to `to`.
Resume(ws, t, to) ==
    [u \in Threads |-> IF u = t THEN to ELSE IF u \in ws THEN Woken(u) ELSE pc[u]]

\* A condition wait may return with no signal (spurious wake-up).
spurious_wakeup(t) ==
    /\ \/ /\ t \in not_full
          /\ not_full' = not_full \ {t}
          /\ UNCHANGED not_empty
       \/ /\ t \in not_empty
          /\ not_empty' = not_empty \ {t}
          /\ UNCHANGED not_full
    /\ pc' = [pc EXCEPT ![t] = Woken(t)]
    /\ UNCHANGED <<queueVars, lock, data, supplied, sdCalls, obsRet,
                   histVars>>

\* ---- enqueue (lines 111-137) ----
\* A producer's call, with the next item of the supply as its argument, up
\* to the return of line 116's pthread_mutex_lock.
enqueue_lock(t) ==
    /\ t \in Producers
    /\ supplied < NumItems
    /\ mutex_lock(t, "idle", "enq_cs")
    /\ supplied' = supplied + 1
    /\ data' = [data EXCEPT ![t] = supplied + 1]
    /\ UNCHANGED <<queueVars, not_full, not_empty, sdCalls, obsRet, histVars>>

\* the mutex re-acquisition that ends the wait of line 120
enqueue_relock(t) ==
    /\ t \in Producers
    /\ mutex_lock(t, "enq_relock", "enq_cs")
    /\ UNCHANGED <<queueVars, not_full, not_empty, data, supplied, sdCalls, obsRet,
                   histVars>>

\* Variants of line 119: a test that lets a full queue through, and one that
\* blocks one slot early.
EnqueueWaitsPastFull(sz, cap, sd) == sz > cap /\ ~sd
EnqueueWaitsEarly(sz, cap, sd) == sz >= cap - 1 /\ ~sd

\* Variant of line 119: the flag left out of the wait loop's condition.
EnqueueWaitsIgnoresShutdown(sz, cap, sd) == sz = cap

\* line 119: the wait loop's condition
EnqueueWaits(sz, cap, sd) == sz = cap /\ ~sd

\* Variant of line 124: the shutdown check left out.
EnqueueNeverRefuses(sd) == FALSE

\* line 124: the shutdown check
EnqueueRefuses(sd) == sd

\* Variant of line 130: the slot computed from size, as if front were 0.
NextRearFromSize(r, cap) == size % cap

\* line 130
NextRear(r, cap) == (r + 1) % cap

\* lines 119-136: the critical section, from the wait loop's test on
enqueue(t) ==
    /\ t \in Producers
    /\ pc[t] = "enq_cs"
    /\ IF EnqueueWaits(size, capacity, is_shutdown_flag)
       THEN \* line 120: pthread_cond_wait releases the mutex and blocks
            /\ not_full' = not_full \cup {t}
            /\ lock' = NoThread
            /\ pc' = [pc EXCEPT ![t] = "enq_wait"]
            /\ UNCHANGED <<queueVars, not_empty, data, histVars>>
       ELSE IF EnqueueRefuses(is_shutdown_flag)
       THEN \* lines 124-127: return without inserting
            /\ lock' = NoThread
            /\ pc' = [pc EXCEPT ![t] = "idle"]
            /\ data' = [data EXCEPT ![t] = NULL]
            /\ UNCHANGED <<queueVars, not_full, not_empty, histVars>>
       ELSE \* lines 130-136: insert, signal not_empty, unlock
            /\ rear' = NextRear(rear, capacity)
            /\ buffer' = [buffer EXCEPT ![rear'] = data[t]]
            /\ size' = size + 1
            /\ accepted' = Append(accepted, data[t])
            /\ \E ws \in cond_signal(not_empty) :
                  /\ not_empty' = not_empty \ ws
                  /\ pc' = Resume(ws, t, "idle")
            /\ lock' = NoThread
            /\ data' = [data EXCEPT ![t] = NULL]
            /\ UNCHANGED <<capacity, front, is_shutdown_flag, not_full, returned,
                           atShutdown>>
    /\ UNCHANGED <<supplied, sdCalls, obsRet>>

\* ---- dequeue (lines 145-173) ----
\* A consumer's call, up to the return of line 150's pthread_mutex_lock.
dequeue_lock(t) ==
    /\ t \in Consumers
    /\ mutex_lock(t, "idle", "deq_cs")
    /\ UNCHANGED <<queueVars, not_full, not_empty, data, supplied, sdCalls, obsRet,
                   histVars>>

\* the mutex re-acquisition that ends the wait of line 154
dequeue_relock(t) ==
    /\ t \in Consumers
    /\ mutex_lock(t, "deq_relock", "deq_cs")
    /\ UNCHANGED <<queueVars, not_full, not_empty, data, supplied, sdCalls, obsRet,
                   histVars>>

\* Variant of line 153: dequeue does not wait for an item.
DequeueNeverWaits(sz, sd) == FALSE

\* Variant of line 153: the flag left out of the wait loop's condition.
DequeueWaitsIgnoresShutdown(sz, sd) == sz = 0

\* line 153: the wait loop's condition
DequeueWaits(sz, sd) == sz = 0 /\ ~sd

\* Variant of line 158: NULL as soon as the queue is shut down.
DequeueEmptyOnShutdown(sz) == sz = 0 \/ is_shutdown_flag

\* line 158: the empty check
DequeueEmpty(sz) == sz = 0

\* Variants of line 165: front not advanced, and advanced by two.
NextFrontStuck(f, cap) == f
NextFrontSkips(f, cap) == (f + 2) % cap

\* line 165
NextFront(f, cap) == (f + 1) % cap

\* A consumer calls dequeue again after each item, and stops when a call
\* returns NULL.
\* lines 153-172: the critical section, from the wait loop's test on
dequeue(t) ==
    /\ t \in Consumers
    /\ pc[t] = "deq_cs"
    /\ IF DequeueWaits(size, is_shutdown_flag)
       THEN \* line 154: pthread_cond_wait releases the mutex and blocks
            /\ not_empty' = not_empty \cup {t}
            /\ lock' = NoThread
            /\ pc' = [pc EXCEPT ![t] = "deq_wait"]
            /\ UNCHANGED <<queueVars, not_full, histVars>>
       ELSE IF DequeueEmpty(size)
       THEN \* lines 158-161: return NULL
            /\ lock' = NoThread
            /\ pc' = [pc EXCEPT ![t] = "done"]
            /\ UNCHANGED <<queueVars, not_full, not_empty, histVars>>
       ELSE \* lines 164-172: take buffer[front], signal not_full, unlock
            /\ returned' = Append(returned, buffer[front])
            /\ front' = NextFront(front, capacity)
            /\ size' = size - 1
            /\ \E ws \in cond_signal(not_full) :
                  /\ not_full' = not_full \ ws
                  /\ pc' = Resume(ws, t, "idle")
            /\ lock' = NoThread
            /\ UNCHANGED <<buffer, capacity, rear, is_shutdown_flag, not_empty,
                           accepted, atShutdown>>
    /\ UNCHANGED <<data, supplied, sdCalls, obsRet>>

\* ---- queue_shutdown (lines 181-193) ----
\* the main thread's call, up to the return of line 186's pthread_mutex_lock
queue_shutdown_lock ==
    /\ sdCalls < MaxShutdownCalls
    /\ mutex_lock(Main, "idle", "sd_cs")
    /\ obsRet' = <<>>
    /\ UNCHANGED <<queueVars, not_full, not_empty, data, supplied, sdCalls, histVars>>

\* Variant of line 187: the flag toggled.
ShutdownFlagToggles(sd) == ~sd

\* line 187: the value stored in the flag
ShutdownFlag(sd) == TRUE

\* The producers have finished: no enqueue call is in progress and the
\* supply is used up.
ProducersDone == supplied = NumItems /\ \A p \in Producers : pc[p] = "idle"

\* Variant of lines 187-192: a shutdown that also empties the queue.
queue_shutdown_clears ==
    /\ pc[Main] = "sd_cs"
    /\ is_shutdown_flag' = TRUE
    /\ size' = 0
    /\ front' = 0
    /\ rear' = -1
    /\ not_empty' = {}
    /\ not_full' = {}
    /\ pc' = Resume(not_empty \cup not_full, Main, "idle")
    /\ lock' = NoThread
    /\ sdCalls' = sdCalls + 1
    /\ atShutdown' =
          IF atShutdown.seen THEN atShutdown
          ELSE [seen |-> TRUE, contents |-> Contents, returned |-> Len(returned),
                early |-> ~ProducersDone]
    /\ UNCHANGED <<buffer, capacity, data, supplied, obsRet, accepted, returned>>

\* lines 187-192: set the flag, broadcast both conditions, unlock
queue_shutdown ==
    /\ pc[Main] = "sd_cs"
    /\ is_shutdown_flag' = ShutdownFlag(is_shutdown_flag)
    /\ not_empty' = not_empty \ cond_broadcast(not_empty)
    /\ not_full' = not_full \ cond_broadcast(not_full)
    /\ pc' = Resume(cond_broadcast(not_empty) \cup cond_broadcast(not_full),
                    Main, "idle")
    /\ lock' = NoThread
    /\ sdCalls' = sdCalls + 1
    /\ atShutdown' =
          IF atShutdown.seen THEN atShutdown
          ELSE [seen |-> TRUE, contents |-> Contents, returned |-> Len(returned),
                early |-> ~ProducersDone]
    /\ UNCHANGED <<buffer, capacity, size, front, rear, data, supplied, obsRet,
                   accepted, returned>>

\* ---- is_empty (lines 201-211) ----
\* the main thread's call, up to the return of line 206's pthread_mutex_lock
is_empty_lock ==
    /\ mutex_lock(Main, "idle", "ie_cs")
    /\ obsRet' = <<>>
    /\ UNCHANGED <<queueVars, not_full, not_empty, data, supplied, sdCalls, histVars>>

\* Variant of line 207: emptiness read off the indices, which also meet
\* when the buffer is full.
IsEmptyResultByIndices(sz) == front = (rear + 1) % capacity

\* line 207
IsEmptyResult(sz) == sz = 0

\* lines 207-210
is_empty ==
    /\ pc[Main] = "ie_cs"
    /\ obsRet' = <<"is_empty", IsEmptyResult(size)>>
    /\ lock' = NoThread
    /\ pc' = [pc EXCEPT ![Main] = "idle"]
    /\ UNCHANGED <<queueVars, not_full, not_empty, data, supplied, sdCalls, histVars>>

\* ---- is_shutdown (lines 219-229) ----
\* the main thread's call, up to the return of line 224's pthread_mutex_lock
is_shutdown_lock ==
    /\ mutex_lock(Main, "idle", "is_cs")
    /\ obsRet' = <<>>
    /\ UNCHANGED <<queueVars, not_full, not_empty, data, supplied, sdCalls, histVars>>

\* Variant of line 225: the emptiness test copied from is_empty.
IsShutdownResultFromSize(sd) == size = 0

\* line 225
IsShutdownResult(sd) == sd

\* lines 225-228
is_shutdown ==
    /\ pc[Main] = "is_cs"
    /\ obsRet' = <<"is_shutdown", IsShutdownResult(is_shutdown_flag)>>
    /\ lock' = NoThread
    /\ pc' = [pc EXCEPT ![Main] = "idle"]
    /\ UNCHANGED <<queueVars, not_full, not_empty, data, supplied, sdCalls, histVars>>

\* ---- queue_destroy (lines 83-103) ----
\* The main thread's positions inside queue_destroy, and the one it has once
\* the queue is gone.
DestroyCalled == pc[Main] \in {"qd_sd_cs", "qd_lock", "qd_cs", "qd_release", "destroyed"}
Destroyed == pc[Main] = "destroyed"

\* line 89: the call of queue_shutdown, up to the return of its
\* pthread_mutex_lock (line 186)
queue_destroy_shutdown_lock ==
    /\ mutex_lock(Main, "idle", "qd_sd_cs")
    /\ obsRet' = <<>>
    /\ UNCHANGED <<queueVars, not_full, not_empty, data, supplied, sdCalls, histVars>>

\* line 89: the critical section of that queue_shutdown (lines 187-192)
queue_destroy_shutdown ==
    /\ pc[Main] = "qd_sd_cs"
    /\ is_shutdown_flag' = ShutdownFlag(is_shutdown_flag)
    /\ not_empty' = not_empty \ cond_broadcast(not_empty)
    /\ not_full' = not_full \ cond_broadcast(not_full)
    /\ pc' = Resume(cond_broadcast(not_empty) \cup cond_broadcast(not_full),
                    Main, "qd_lock")
    /\ lock' = NoThread
    /\ atShutdown' =
          IF atShutdown.seen THEN atShutdown
          ELSE [seen |-> TRUE, contents |-> Contents, returned |-> Len(returned),
                early |-> ~ProducersDone]
    /\ UNCHANGED <<buffer, capacity, size, front, rear, data, supplied, sdCalls,
                   obsRet, accepted, returned>>

\* line 92
queue_destroy_lock ==
    /\ mutex_lock(Main, "qd_lock", "qd_cs")
    /\ UNCHANGED <<queueVars, not_full, not_empty, data, supplied, sdCalls, obsRet,
                   histVars>>

\* lines 93-95: broadcast both conditions again, unlock
queue_destroy_broadcast ==
    /\ pc[Main] = "qd_cs"
    /\ not_full' = not_full \ cond_broadcast(not_full)
    /\ not_empty' = not_empty \ cond_broadcast(not_empty)
    /\ pc' = Resume(cond_broadcast(not_full) \cup cond_broadcast(not_empty),
                    Main, "qd_release")
    /\ lock' = NoThread
    /\ UNCHANGED <<queueVars, data, supplied, sdCalls, obsRet, histVars>>

\* lines 97-102: destroy the condition variables and the mutex, free the
\* buffer and the queue. Nothing here waits for the mutex or for the threads
\* that were woken.
queue_destroy_release ==
    /\ pc[Main] = "qd_release"
    /\ pc' = [pc EXCEPT ![Main] = "destroyed"]
    /\ UNCHANGED <<queueVars, syncVars, data, supplied, sdCalls, obsRet, histVars>>

\* A thread still inside enqueue or dequeue when the queue was released goes
\* on with a destroyed mutex and freed memory (pthread_mutex_lock of lines 120
\* and 154, the field reads of lines 119-132 and 153-166). The behaviour is
\* undefined: the call may come back as if nothing had happened, or the
\* process may fault; a thread that never comes back just takes no step.
UseAfterFreeOutcomes == {"idle", "crashed"}

InsideCall(t) ==
    pc[t] \in {"enq_cs", "enq_wait", "enq_relock", "deq_cs", "deq_wait", "deq_relock"}

use_after_destroy(t) ==
    /\ Destroyed
    /\ InsideCall(t)
    /\ \E o \in UseAfterFreeOutcomes : pc' = [pc EXCEPT ![t] = o]
    /\ UNCHANGED <<queueVars, syncVars, data, supplied, sdCalls, obsRet, histVars>>

\* ---- the system ----
\* Producers, consumers and the main thread's queue_shutdown calls.
Next ==
    \/ \E t \in Producers : enqueue_lock(t)
    \/ \E t \in Producers : enqueue_relock(t)
    \/ \E t \in Producers : enqueue(t)
    \/ \E t \in Consumers : dequeue_lock(t)
    \/ \E t \in Consumers : dequeue_relock(t)
    \/ \E t \in Consumers : dequeue(t)
    \/ \E t \in Producers \cup Consumers : spurious_wakeup(t)
    \/ queue_shutdown_lock
    \/ queue_shutdown

Spec == Init /\ [][Next]_vars

\* The same, with the main thread also calling is_empty and is_shutdown.
NextObs ==
    \/ Next
    \/ is_empty_lock
    \/ is_empty
    \/ is_shutdown_lock
    \/ is_shutdown

SpecObs == Init /\ [][NextObs]_vars

\* Producers, consumers and queue_shutdown under the scheduler's fairness:
\* a thread that can take the mutex again after a wait, or that is inside a
\* critical section, eventually runs. No fairness is asked of new calls or of
\* spurious wake-ups.
Fairness ==
    /\ \A t \in Producers : WF_vars(enqueue_relock(t) \/ enqueue(t))
    /\ \A t \in Consumers : WF_vars(dequeue_relock(t) \/ dequeue(t))
    /\ WF_vars(queue_shutdown)

FairSpec == Init /\ [][Next]_vars /\ Fairness

\* The scheduling of FairSpec, with a mutex that does not starve the
\* producers: when producers try again and again to take the mutex, one of
\* them eventually gets it.
StrongFairness ==
    /\ Fairness
    /\ SF_vars(\E t \in Producers : enqueue_relock(t) \/ enqueue(t))

StrongFairSpec == Init /\ [][Next]_vars /\ StrongFairness

\* Producers, consumers and a main thread that calls queue_shutdown and then
\* queue_destroy. The callers keep to what spec.md asks of them as far as
\* they can: no call starts once queue_destroy has been called; the calls in
\* progress at that moment (blocked ones included) go on.
NextDestroy ==
    \/ \E t \in Producers : ~DestroyCalled /\ enqueue_lock(t)
    \/ \E t \in Consumers : ~DestroyCalled /\ dequeue_lock(t)
    \/ ~DestroyCalled /\ queue_shutdown_lock
    \/ \E t \in Producers : ~Destroyed /\ enqueue_relock(t)
    \/ \E t \in Producers : ~Destroyed /\ enqueue(t)
    \/ \E t \in Consumers : ~Destroyed /\ dequeue_relock(t)
    \/ \E t \in Consumers : ~Destroyed /\ dequeue(t)
    \/ \E t \in Producers \cup Consumers : ~Destroyed /\ spurious_wakeup(t)
    \/ ~Destroyed /\ queue_shutdown
    \/ queue_destroy_shutdown_lock
    \/ queue_destroy_shutdown
    \/ queue_destroy_lock
    \/ queue_destroy_broadcast
    \/ queue_destroy_release
    \/ \E t \in Producers \cup Consumers : use_after_destroy(t)

SpecDestroy == Init /\ [][NextDestroy]_vars

\* ---- queue_init as a call (lines 28-76) ----
\* Before queue_init has returned a queue there is none: the variables of the
\* queue hold nothing the program can reach.
NoQueue ==
    /\ capacity = 0
    /\ buffer = <<>>
    /\ size = 0
    /\ front = 0
    /\ rear = 0
    /\ is_shutdown_flag = FALSE
    /\ lock = NoThread
    /\ not_full = {}
    /\ not_empty = {}

\* The arguments queue_init is called with.
CapacityArgs == (-MaxCapacity) .. MaxCapacity

InitNoQueue ==
    /\ NoQueue
    /\ pc = [t \in Threads |-> IF t = Main THEN "start" ELSE "idle"]
    /\ data = [p \in Producers |-> NULL]
    /\ supplied = 0
    /\ sdCalls = 0
    /\ obsRet = <<>>
    /\ accepted = <<>>
    /\ returned = <<>>
    /\ atShutdown = NoShutdownYet

\* The main thread's call of queue_init: the assertion of line 29 aborts the
\* program, or an allocation or a pthread initialisation fails and NULL is
\* returned with everything freed (lines 32-35, 38-42, 51-70), or the queue
\* is returned (line 75): of the values the fields and the synchronisation
\* objects can be given, the ones that queue_init(cap) holds of.
queue_init_call ==
    /\ pc[Main] = "start"
    /\ \E cap \in CapacityArgs :
          \/ /\ capacity' \in CapacityArgs
             /\ buffer' \in {[i \in 0 .. c - 1 |-> NULL] : c \in 0 .. MaxCapacity}
             /\ size' \in 0 .. MaxCapacity
             /\ front' \in 0 .. MaxCapacity
             /\ rear' \in -1 .. MaxCapacity
             /\ is_shutdown_flag' \in BOOLEAN
             /\ lock' \in {NoThread, Main}
             /\ not_full' \in {{}, Producers}
             /\ not_empty' \in {{}, Consumers}
             /\ queue_init(cap)'
             /\ pc' = [pc EXCEPT ![Main] = "idle"]
          \/ /\ cap > 0
             /\ pc' = [pc EXCEPT ![Main] = "init_failed"]
             /\ UNCHANGED <<queueVars, syncVars>>
          \/ /\ ~(cap > 0)
             /\ pc' = [pc EXCEPT ![Main] = "aborted"]
             /\ UNCHANGED <<queueVars, syncVars>>
    /\ UNCHANGED <<data, supplied, sdCalls, obsRet, histVars>>

\* queue_init has returned a queue.
Constructed == pc[Main] \notin {"start", "init_failed", "aborted"}

\* queue_init, then the threads of SpecObs on the queue it returned.
NextInit ==
    \/ queue_init_call
    \/ Constructed /\ NextObs

SpecInit == InitNoQueue /\ [][NextInit]_vars

\* ---- wake-ups told apart ----
\* Woken(t) is where a thread stands after any wake-up. To tell the threads
\* a signal or a broadcast has woken from the ones whose wait ended with none,
\* the latter stand at SpuriouslyWoken(t): they too have to take the mutex
\* again before pthread_cond_wait returns.
SpuriouslyWoken(t) == IF t \in Producers THEN "enq_spurious" ELSE "deq_spurious"

spurious_wakeup_unsignalled(t) ==
    /\ \/ /\ t \in not_full
          /\ not_full' = not_full \ {t}
          /\ UNCHANGED not_empty
       \/ /\ t \in not_empty
          /\ not_empty' = not_empty \ {t}
          /\ UNCHANGED not_full
    /\ pc' = [pc EXCEPT ![t] = SpuriouslyWoken(t)]
    /\ UNCHANGED <<queueVars, lock, data, supplied, sdCalls, obsRet,
                   histVars>>

\* the mutex re-acquisition that ends the wait of line 120, no signal received
enqueue_relock_unsignalled(t) ==
    /\ t \in Producers
    /\ mutex_lock(t, "enq_spurious", "enq_cs")
    /\ UNCHANGED <<queueVars, not_full, not_empty, data, supplied, sdCalls, obsRet,
                   histVars>>

\* the mutex re-acquisition that ends the wait of line 154, no signal received
dequeue_relock_unsignalled(t) ==
    /\ t \in Consumers
    /\ mutex_lock(t, "deq_spurious", "deq_cs")
    /\ UNCHANGED <<queueVars, not_full, not_empty, data, supplied, sdCalls, obsRet,
                   histVars>>

\* The threads of Spec, with the spurious wake-ups told apart.
NextWake ==
    \/ \E t \in Producers : enqueue_lock(t)
    \/ \E t \in Producers : enqueue_relock(t)
    \/ \E t \in Producers : enqueue_relock_unsignalled(t)
    \/ \E t \in Producers : enqueue(t)
    \/ \E t \in Consumers : dequeue_lock(t)
    \/ \E t \in Consumers : dequeue_relock(t)
    \/ \E t \in Consumers : dequeue_relock_unsignalled(t)
    \/ \E t \in Consumers : dequeue(t)
    \/ \E t \in Producers \cup Consumers : spurious_wakeup_unsignalled(t)
    \/ queue_shutdown_lock
    \/ queue_shutdown

SpecWake == Init /\ [][NextWake]_vars

\* ---- calls with a null queue ----
\* Every operation starts with a test of q == NULL: lines 84-86, 112-114,
\* 146-148, 182-184, 202-204 and 220-222.
NullQueueOps ==
    {"enqueue", "dequeue", "queue_shutdown", "queue_destroy", "is_empty", "is_shutdown"}

\* Variant of line 221: no queue taken for a queue that is not shut down.
NullQueueResultOpen(op) ==
    CASE op = "dequeue" -> NULL
      [] op = "is_empty" -> TRUE
      [] op = "is_shutdown" -> FALSE
      [] OTHER -> "void"

\* What the operation returns when q == NULL: NULL from dequeue (line 147),
\* true from is_empty (line 203) and is_shutdown (line 221), nothing from
\* the others.
NullQueueResult(op) ==
    CASE op = "dequeue" -> NULL
      [] op = "is_empty" -> TRUE
      [] op = "is_shutdown" -> TRUE
      [] OTHER -> "void"

\* The main thread calls op with a null queue: the test of the first line
\* returns before the queue's lock or any field is touched, whoever holds
\* the lock of the queue the other threads work on.
call_with_null(op) ==
    /\ pc[Main] = "idle"
    /\ obsRet' = <<op \o "(NULL)", NullQueueResult(op)>>
    /\ UNCHANGED <<queueVars, syncVars, pc, data, supplied, sdCalls, histVars>>

\* The threads of Spec, with the main thread also making calls with a null
\* queue.
NextNull ==
    \/ Next
    \/ \E op \in NullQueueOps : call_with_null(op)

SpecNull == Init /\ [][NextNull]_vars

\* ---- helpers of the properties ----
IsPrefix(s, t) == Len(s) <= Len(t) /\ \A i \in 1 .. Len(s) : s[i] = t[i]
Count(x, s) == Cardinality({i \in 1 .. Len(s) : s[i] = x})
Blocked(t) == pc[t] \in {"enq_wait", "enq_relock", "deq_wait", "deq_relock"}
Returned(t) == pc[t] \in {"idle", "done"}
\* The items dequeue returned since the first queue_shutdown.
PostReturned == SubSeq(returned, atShutdown.returned + 1, Len(returned))

\* C1: the items returned by dequeue, in critical-section order, are a prefix
\* of the items stored by enqueue, in critical-section order (strict FIFO).
C1_Fifo == IsPrefix(returned, accepted)

\* Every item of the supply went through a queue smaller than the supply.
C1_Witness == Len(returned) = NumItems /\ capacity < NumItems

\* C2: 0 <= size <= capacity in every reachable state.
C2_SizeInRange == 0 <= size /\ size <= capacity

\* A producer woken spuriously (nothing was dequeued) is about to re-check the
\* wait condition of a full queue.
C2_Witness ==
    /\ size = capacity
    /\ ~is_shutdown_flag
    /\ Len(returned) = 0
    /\ \E p \in Producers : pc[p] = "enq_relock"

\* C3: when queue_shutdown ran only after the producers had finished, and all
\* consumers have exited on NULL, every item of the supply was returned by
\* exactly one dequeue.
C3_NoLossNoDup ==
    (/\ atShutdown.seen
     /\ ~atShutdown.early
     /\ \A c \in Consumers : pc[c] = "done")
    => /\ Len(returned) = NumItems
       /\ \A x \in Items : Count(x, returned) = 1

C3_Witness ==
    /\ atShutdown.seen
    /\ ~atShutdown.early
    /\ \A c \in Consumers : pc[c] = "done"
    /\ Len(returned) = NumItems

\* C4: once queue_shutdown has set the flag, every producer and consumer,
\* the ones blocked in enqueue or dequeue at that moment included, eventually
\* has returned: none stays blocked and the system does not deadlock.
C4_ShutdownUnblocks ==
    is_shutdown_flag ~> (\A t \in Producers \cup Consumers : Returned(t))

\* queue_shutdown has woken a producer and a consumer that were both blocked.
C4_Witness ==
    /\ is_shutdown_flag
    /\ \E p \in Producers : pc[p] = "enq_relock"
    /\ \E c \in Consumers : pc[c] = "deq_relock"

\* C5: an enqueue that finds the shutdown flag set when its wait loop ends
\* returns and leaves size, front, rear and the buffer as they were; once the
\* flag is set, size never increases and nothing is stored any more.
C5_RefusedEnqueueStep ==
    \A p \in Producers :
        (pc[p] = "enq_cs" /\ is_shutdown_flag /\ pc'[p] # "enq_cs")
        => /\ pc'[p] = "idle"
           /\ UNCHANGED <<buffer, size, front, rear, accepted>>

C5_NoInsertAfterShutdownStep ==
    is_shutdown_flag => size' <= size /\ UNCHANGED <<buffer, rear, accepted>>

C5_NoInsertAfterShutdown ==
    [][C5_RefusedEnqueueStep /\ C5_NoInsertAfterShutdownStep]_vars

\* Every producer has returned, an item handed to enqueue was not stored, and
\* the queue still has a free slot.
C5_Witness ==
    /\ is_shutdown_flag
    /\ \A p \in Producers : pc[p] = "idle"
    /\ supplied > Len(accepted)
    /\ size < capacity

C7_DequeueReturnStep ==
    \A c \in Consumers :
        (pc[c] = "deq_cs" /\ pc'[c] \in {"idle", "done"})
        => \/ /\ pc'[c] = "idle"
              /\ size > 0
              /\ returned' = Append(returned, buffer[front])
           \/ /\ pc'[c] = "done"
              /\ is_shutdown_flag
              /\ size = 0
              /\ returned' = returned

C7_NoEmptyBeforeShutdown == [][C7_DequeueReturnStep]_vars

\* Two consumers called dequeue, one item was inserted and taken, and the
\* other consumer is still blocked on the open queue.
C7_Witness ==
    /\ ~is_shutdown_flag
    /\ Len(accepted) = 1
    /\ Len(returned) = 1
    /\ \E c \in Consumers : pc[c] = "deq_wait"
    /\ \E c \in Consumers : pc[c] = "idle"

\* C8: an enqueue blocks exactly when it finds size = capacity with the flag
\* not set; it completes by storing its item only when size < capacity, and
\* without storing only when the flag is set.
C8_EnqueueStep ==
    \A p \in Producers :
        (pc[p] = "enq_cs" /\ pc'[p] # "enq_cs")
        => /\ (pc'[p] = "enq_wait") <=> (size = capacity /\ ~is_shutdown_flag)
           /\ pc'[p] = "idle"
                 => \/ /\ ~is_shutdown_flag
                       /\ size < capacity
                       /\ size' = size + 1
                       /\ accepted' = Append(accepted, data[p])
                    \/ /\ is_shutdown_flag
                       /\ UNCHANGED <<size, accepted>>

C8_BlocksIffFull == [][C8_EnqueueStep]_vars

\* capacity items were stored without any dequeue, the next enqueue blocked,
\* and the first dequeue has freed a slot and woken it.
C8_Witness ==
    /\ ~is_shutdown_flag
    /\ Len(accepted) = capacity
    /\ Len(returned) = 1
    /\ size = capacity - 1
    /\ \E p \in Producers : pc[p] = "enq_relock"

\* C9: the shutdown flag never goes back to false, only queue_shutdown sets
\* it, and is_shutdown returns the value the flag has.
C9_FlagStep ==
    /\ is_shutdown_flag => is_shutdown_flag'
    /\ (~is_shutdown_flag /\ is_shutdown_flag') => pc[Main] = "sd_cs"
    /\ (pc[Main] = "is_cs" /\ pc'[Main] = "idle")
          => obsRet' = <<"is_shutdown", is_shutdown_flag>>

C9_FlagMonotonic == [][C9_FlagStep]_vars

\* is_shutdown returned true after the last of the queue_shutdown calls.
C9_Witness ==
    /\ obsRet = <<"is_shutdown", TRUE>>
    /\ sdCalls = MaxShutdownCalls

\* C10: queue_shutdown leaves size, front, rear and the buffer as they are,
\* and a queue_shutdown on a queue already shut down changes neither the flag
\* nor the wait sets.
C10_ShutdownStep ==
    (pc[Main] = "sd_cs" /\ pc'[Main] = "idle")
    => /\ UNCHANGED <<buffer, capacity, size, front, rear>>
       /\ is_shutdown_flag'
       /\ is_shutdown_flag => UNCHANGED <<is_shutdown_flag, not_full, not_empty>>

C10_ShutdownFrame == [][C10_ShutdownStep]_vars

\* A second queue_shutdown has returned and the items are still buffered.
C10_Witness ==
    /\ sdCalls >= 2
    /\ is_shutdown_flag
    /\ size > 0
    /\ Contents = atShutdown.contents

\* C11: every enqueue call eventually returns, having stored its item or
\* because the queue was shut down; none stays blocked for ever on a full
\* queue.
C11_NeverBlockedForever ==
    \A p \in Producers : (pc[p] = "enq_wait") ~> (pc[p] # "enq_wait")

\* C11, amended: if queue_shutdown is eventually called, every enqueue call
\* eventually returns: from some moment on no producer is inside enqueue (the
\* supply is finite, so the calls are finitely many).
C11_ReturnsIfShutDown ==
    (<>is_shutdown_flag) => <>[](\A p \in Producers : pc[p] = "idle")

\* queue_shutdown has woken a producer that was blocked on the full queue,
\* with no dequeue so far; it is about to take the mutex and return.
C11_Witness ==
    /\ is_shutdown_flag
    /\ size = capacity
    /\ Len(returned) = 0
    /\ \A c \in Consumers : pc[c] = "idle"
    /\ \E p \in Producers : pc[p] = "enq_relock"

\* C12: when queue_destroy has destroyed the mutex and the condition
\* variables and freed the buffer and the queue, no thread is still inside
\* enqueue or dequeue: every thread that was blocked has been woken by the
\* queue_shutdown of line 89 and has returned, so none touches the queue's
\* fields, lock or condition variables afterwards.
C12_NoUseAfterDestroy ==
    Destroyed => \A t \in Producers \cup Consumers : ~InsideCall(t)

\* The queue is as queue_init returned it: no call has been made on it.
C13_Fresh ==
    /\ Constructed
    /\ \A t \in Threads : pc[t] = "idle"
    /\ supplied = 0
    /\ sdCalls = 0
    /\ obsRet = <<>>

\* C13: queue_init called with capacity <= 0 yields no queue (the assertion
\* aborts), and a queue_init that returns a queue returns one with
\* capacity > 0, size = 0, front = 0 and the flag false, on which is_empty
\* returns true and is_shutdown returns false.
C13_InitContract ==
    /\ pc[Main] \in {"aborted", "init_failed"} => NoQueue
    /\ Constructed => capacity > 0
    /\ C13_Fresh => size = 0 /\ front = 0 /\ ~is_shutdown_flag
    /\ (Len(obsRet) = 2 /\ supplied = 0 /\ sdCalls = 0)
          => \/ obsRet = <<"is_empty", TRUE>>
             \/ obsRet = <<"is_shutdown", FALSE>>

\* The first call on a new queue of the largest capacity was is_empty, and it
\* returned true.
C13_Witness ==
    /\ obsRet = <<"is_empty", TRUE>>
    /\ capacity = MaxCapacity
    /\ supplied = 0
    /\ sdCalls = 0
    /\ \A c \in Consumers : pc[c] = "idle"

\* C14: is_empty returns true exactly when size = 0 at the moment it holds
\* the lock (true on a new queue and on a drained one, false while items are
\* buffered), and it changes nothing of the queue.
C14_IsEmptyStep ==
    (pc[Main] = "ie_cs" /\ pc'[Main] = "idle")
    => /\ obsRet' = <<"is_empty", size = 0>>
       /\ size > 0 => obsRet' = <<"is_empty", FALSE>>
       /\ UNCHANGED <<queueVars, not_full, not_empty, histVars>>

C14_IsEmptyExact == [][C14_IsEmptyStep]_vars

\* is_empty returned true on a queue that every item of the supply went
\* through and left.
C14_Witness ==
    /\ obsRet = <<"is_empty", TRUE>>
    /\ Len(returned) = NumItems
    /\ size = 0

\* The positions from which a thread's next step reads or writes fields of
\* the queue: the critical sections of the operations, and queue_destroy's
\* release of the buffer (line 101 reads q->buffer).
AccessesQueue(t) ==
    pc[t] \in {"enq_cs", "deq_cs", "sd_cs", "ie_cs", "is_cs", "qd_sd_cs", "qd_cs",
               "qd_release"}

\* C15: a thread about to read or write the queue's shared state, in any
\* operation, queue_destroy's release of the buffer included, holds the
\* queue's lock, and no two threads are at such a position at once.
C15_AccessUnderLock ==
    /\ \A t \in Threads : AccessesQueue(t) => lock = t
    /\ Cardinality({t \in Threads : AccessesQueue(t)}) <= 1

\* C16: once the shutdown flag is set, no thread is in a condition wait and
\* both wait sets are empty, and an enqueue or a dequeue that tests its wait
\* condition returns at once: enqueue without storing, dequeue with the head
\* item, or with NULL when size = 0.
C16_Step ==
    /\ is_shutdown_flag'
          => /\ not_full' = {}
             /\ not_empty' = {}
             /\ \A t \in Threads : pc'[t] \notin {"enq_wait", "deq_wait"}
    /\ \A p \in Producers :
          (is_shutdown_flag /\ pc[p] = "enq_cs" /\ pc'[p] # "enq_cs")
          => pc'[p] = "idle" /\ UNCHANGED <<size, buffer>>
    /\ \A c \in Consumers :
          (is_shutdown_flag /\ pc[c] = "deq_cs" /\ pc'[c] # "deq_cs")
          => IF size = 0
             THEN pc'[c] = "done" /\ returned' = returned
             ELSE pc'[c] = "idle" /\ returned' = Append(returned, buffer[front])

C16_NoWaitAfterShutdown == [][C16_Step]_vars

\* queue_shutdown ran on the new queue; every enqueue call came after it and
\* has returned without storing, and every consumer got NULL.
C16_Witness ==
    /\ is_shutdown_flag
    /\ supplied = NumItems
    /\ Len(accepted) = 0
    /\ \A p \in Producers : pc[p] = "idle"
    /\ \A c \in Consumers : pc[c] = "done"

\* C17: (rear + 1) mod capacity = (front + size) mod capacity in every
\* reachable state, the initial one with rear = -1 included, and
\* 0 <= front < capacity; so enqueue writes a free slot: the buffered items
\* are the stored items not yet returned, none overwritten.
C17_RingConsistent ==
    /\ (rear + 1) % capacity = (front + size) % capacity
    /\ 0 <= front
    /\ front < capacity
    /\ Contents = SubSeq(accepted, Len(returned) + 1, Len(accepted))

\* The buffer is full and wraps around: the newest item sits below the oldest.
C17_Witness ==
    /\ capacity > 1
    /\ size = capacity
    /\ rear < front

\* C18: no wake-up is lost for the consumers. In every reachable state with
\* the flag not set, if size > 0 and a consumer is waiting on not_empty,
\* unsignalled, then another consumer has been signalled and has not yet
\* re-acquired the lock.
C18_SignalPending ==
    (/\ ~is_shutdown_flag
     /\ size > 0
     /\ \E c \in Consumers : pc[c] = "deq_wait")
    => \E c \in Consumers : pc[c] = "deq_relock"

\* C18, amended: the same in the states where no thread holds the lock. (A
\* signalled consumer that holds the lock again and has not yet taken its
\* item is a state the claim leaves out.)
C18_SignalPendingLockFree ==
    (/\ ~is_shutdown_flag
     /\ lock = NoThread
     /\ size > 0
     /\ \E c \in Consumers : pc[c] = "deq_wait")
    => \E c \in Consumers : pc[c] = "deq_relock"

\* An item is buffered and the lock is free; one consumer waits unsignalled
\* and another one was signalled for the item.
C18_Witness ==
    /\ ~is_shutdown_flag
    /\ lock = NoThread
    /\ size > 0
    /\ \E c \in Consumers : pc[c] = "deq_wait"
    /\ \E c \in Consumers : pc[c] = "deq_relock"

\* A thread inside a call that is not asleep in a condition wait.
Runnable(t) ==
    pc[t] \in {"enq_cs", "enq_relock", "enq_spurious", "deq_cs", "deq_relock",
               "deq_spurious", "sd_cs"}

\* No producer and consumer are both asleep with no thread left to run.
C19_NoDeadlock ==
    (/\ \E p \in Producers : pc[p] = "enq_wait"
     /\ \E c \in Consumers : pc[c] = "deq_wait")
    => \E t \in Threads : Runnable(t)

\* C19: no wake-up is lost for the producers. In every reachable state with
\* the flag not set, if size < capacity and a producer is waiting on
\* not_full, unsignalled, then another producer has been signalled and has
\* not yet re-acquired the lock; and never are a producer and a consumer both
\* blocked with no thread runnable.
C19_SignalPending ==
    /\ (/\ ~is_shutdown_flag
        /\ size < capacity
        /\ \E p \in Producers : pc[p] = "enq_wait")
       => \E p \in Producers : pc[p] = "enq_relock"
    /\ C19_NoDeadlock

\* C19, amended: the same, the first part in the states where no thread
\* holds the lock. (A signalled producer that holds the lock again and has
\* not yet stored its item is a state the claim leaves out.)
C19_SignalPendingLockFree ==
    /\ (/\ ~is_shutdown_flag
        /\ lock = NoThread
        /\ size < capacity
        /\ \E p \in Producers : pc[p] = "enq_wait")
       => \E p \in Producers : pc[p] = "enq_relock"
    /\ C19_NoDeadlock

\* A slot is free and the lock is free; one producer waits unsignalled,
\* another one was signalled for the slot, and a consumer is blocked too.
C19_Witness ==
    /\ ~is_shutdown_flag
    /\ lock = NoThread
    /\ size < capacity
    /\ \E p \in Producers : pc[p] = "enq_wait"
    /\ \E p \in Producers : pc[p] = "enq_relock"
    /\ \E c \in Consumers : pc[c] = "deq_wait"

\* C20: a call with a null queue returns at once and touches nothing:
\* enqueue, queue_shutdown and queue_destroy do nothing, dequeue returns
\* NULL, is_empty and is_shutdown return true.
C20_NullStep ==
    \A op \in NullQueueOps :
        (obsRet' # obsRet /\ Len(obsRet') = 2 /\ obsRet'[1] = op \o "(NULL)")
        => /\ UNCHANGED <<queueVars, syncVars, pc, data, supplied, sdCalls, histVars>>
           /\ op = "dequeue" => obsRet'[2] = NULL
           /\ op \in {"is_empty", "is_shutdown"} => obsRet'[2] = TRUE
           /\ op \in {"enqueue", "queue_shutdown", "queue_destroy"}
                 => obsRet'[2] = "void"

C20_NullQueueCalls == [][C20_NullStep]_vars

\* is_shutdown(NULL) has returned true while the queue the threads work on
\* is open, holds an item and has its lock held by a producer.
C20_Witness ==
    /\ obsRet = <<"is_shutdown(NULL)", TRUE>>
    /\ ~is_shutdown_flag
    /\ size > 0
    /\ lock \in Producers

====
